---- MODULE Spec2Model ----
(***************************************************************************)
(* The VLESS-over-WebSocket tunnel client of src/test_vless.py as a state  *)
(* machine: connect, WebSocket handshake, one masked binary frame carrying *)
(* the VLESS request header and the HTTP request, the drain-read loop, the *)
(* frame parse loop and close.  Bytes are integers 0..255, byte strings    *)
(* are sequences of them.  The peer is the environment: it owns the byte   *)
(* stream `wire` and decides what every recv returns.                      *)
(***************************************************************************)
EXTENDS Integers, Sequences, FiniteSets, TLC

VARIABLES
    pc,          \* position of the script
    error,       \* "none", or the exception that ended the script
    sock,        \* "none" | "open" | "closed"
    calls,       \* how often each socket operation was called
    sent,        \* what sendall wrote, in order
    peerFrames,  \* the frames the peer serialises after its handshake reply
    wire,        \* every byte the peer would send on this connection
    rpos,        \* how many bytes of wire recv has returned so far
    peerClosed,  \* the peer has closed its side: recv returns b'' from now on
    response,    \* line 33: the handshake read buffer
    hsEnd,       \* rpos when the handshake loop ended
    all_data,    \* line 81: the tunnel read buffer
    readEnd,     \* how the tunnel read loop ended
    offset,      \* line 96
    first_frame, \* line 97
    parsed,      \* the locals of every parse-loop iteration that printed
    printed,     \* the chunks print() wrote at line 123, in order
    codec,       \* the payload and key of a codec run (unused by the script's run)
    session,     \* src/cfspider/session.py: the attributes of the Session object
    loaded,      \* src/cfspider/api.py: which of _httpx, _curl_cffi are loaded
    reqlog       \* the calls of api.request so far: how many, the last one, and
                 \* the cookies the responses have set

\* the state of the tunnel script of src/test_vless.py
tunnel == <<sock, calls, sent, peerFrames, wire, rpos, peerClosed,
            response, hsEnd, all_data, readEnd, offset, first_frame, parsed, printed,
            codec>>

\* the state of the HTTP client of src/cfspider
web == <<session, loaded, reqlog>>

vars == <<pc, error, sock, calls, sent, peerFrames, wire, rpos, peerClosed,
          response, hsEnd, all_data, readEnd, offset, first_frame, parsed, printed,
          codec, session, loaded, reqlog>>

----------------------------------------------------------------------------
(* Bounds of the model *)

\* the peer sends at most this many frames after its handshake reply
MaxFrames == 2

----------------------------------------------------------------------------
(* Byte helpers *)

Min(a, b) == IF a < b THEN a ELSE b

\* Python's s[a:b] on a byte string (0-based, clamped to the string)
Slice(s, a, b) ==
    LET lo == Min(a, Len(s))
        hi == Min(b, Len(s))
    IN  SubSeq(s, lo + 1, hi)

RECURSIVE XorBits(_, _, _)
XorBits(a, b, n) ==
    IF n = 0 THEN 0
    ELSE (((a % 2) + (b % 2)) % 2) + 2 * XorBits(a \div 2, b \div 2, n - 1)

\* a ^ b on bytes
Xor(a, b) == XorBits(a, b, 8)

\* struct.pack('>H', n)
PackH(n) == <<(n \div 256) % 256, n % 256>>

RECURSIVE PackBE(_, _)
\* n as k big-endian bytes
PackBE(n, k) == IF k = 0 THEN <<>> ELSE Append(PackBE(n \div 256, k - 1), n % 256)

\* struct.pack('>Q', n)
PackQ(n) == PackBE(n, 8)

\* Python's integers are unbounded and TLC's are 32 bits wide: a length of
\* Huge or more is represented by Huge, which is past the end of every buffer
\* of the model, so that slices and loop tests come out as in Python
Huge == 2^30

\* struct.unpack('>H' | '>Q', b)[0], as the big-endian sum of the bytes of b;
\* a value of Huge or more is Huge
UnpackBE(b) ==
    LET n == Len(b)
        FromRight(k) == IF k <= n THEN b[n + 1 - k] ELSE 0
    IN  IF (\E i \in 1..n : i <= n - 4 /\ b[i] # 0) \/ FromRight(4) >= Huge \div 16777216
        THEN Huge
        ELSE FromRight(1) + 256 * FromRight(2) + 65536 * FromRight(3)
                 + 16777216 * FromRight(4)

CRLFCRLF == <<13, 10, 13, 10>>

\* needle in s, for byte strings
Contains(s, needle) ==
    \E i \in 1..(Len(s) - Len(needle) + 1) : SubSeq(s, i, i + Len(needle) - 1) = needle

\* the index just past the first occurrence of needle in s (0 when absent)
EndOfFirst(s, needle) ==
    IF Contains(s, needle)
    THEN (CHOOSE i \in 1..(Len(s) - Len(needle) + 1) :
             /\ SubSeq(s, i, i + Len(needle) - 1) = needle
             /\ \A j \in 1..(i - 1) : SubSeq(s, j, j + Len(needle) - 1) # needle)
         + Len(needle) - 1
    ELSE 0

IsCont(s, i, lo, hi) == i <= Len(s) /\ s[i] >= lo /\ s[i] <= hi

RECURSIVE Utf8From(_, _)
\* bytes.decode('utf-8', errors='ignore') from index i on: the code points
Utf8From(s, i) ==
    IF i > Len(s) THEN <<>>
    ELSE LET c == s[i] IN
      IF c < 128 THEN <<c>> \o Utf8From(s, i + 1)
      ELSE IF c >= 194 /\ c <= 223 THEN
        IF IsCont(s, i + 1, 128, 191)
        THEN <<(c - 192) * 64 + (s[i + 1] - 128)>> \o Utf8From(s, i + 2)
        ELSE Utf8From(s, i + 1)
      ELSE IF c >= 224 /\ c <= 239 THEN
        LET lo2 == IF c = 224 THEN 160 ELSE 128
            hi2 == IF c = 237 THEN 159 ELSE 191
        IN  IF ~IsCont(s, i + 1, lo2, hi2) THEN Utf8From(s, i + 1)
            ELSE IF ~IsCont(s, i + 2, 128, 191) THEN Utf8From(s, i + 2)
            ELSE <<(c - 224) * 4096 + (s[i + 1] - 128) * 64 + (s[i + 2] - 128)>>
                 \o Utf8From(s, i + 3)
      ELSE IF c >= 240 /\ c <= 244 THEN
        LET lo2 == IF c = 240 THEN 144 ELSE 128
            hi2 == IF c = 244 THEN 143 ELSE 191
        IN  IF ~IsCont(s, i + 1, lo2, hi2) THEN Utf8From(s, i + 1)
            ELSE IF ~IsCont(s, i + 2, 128, 191) THEN Utf8From(s, i + 2)
            ELSE IF ~IsCont(s, i + 3, 128, 191) THEN Utf8From(s, i + 3)
            ELSE <<(c - 240) * 262144 + (s[i + 1] - 128) * 4096
                   + (s[i + 2] - 128) * 64 + (s[i + 3] - 128)>>
                 \o Utf8From(s, i + 4)
      ELSE Utf8From(s, i + 1)

\* payload.decode('utf-8', errors='ignore')
DecodeIgnore(s) == Utf8From(s, 1)

----------------------------------------------------------------------------
(* The script's constants, lines 9-14 and 51 *)

host == "v2.kami666.xyz"
path == "/c373c80c-58e4-4e64-8db5-40096905ec58"

\* uuid_module.UUID(vless_uuid).bytes for the uuid of line 12
vless_uuid_bytes == <<195, 115, 200, 12, 88, 228, 78, 100, 141, 181, 64, 9, 105, 5, 236, 88>>

\* 'httpbin.org'.encode('utf-8')
target_host == <<104, 116, 116, 112, 98, 105, 110, 46, 111, 114, 103>>

target_port == 80

\* b'GET /ip HTTP/1.1\r\nHost: httpbin.org\r\nConnection: close\r\n\r\n'
http_request ==
    <<71, 69, 84, 32, 47, 105, 112, 32, 72, 84, 84, 80, 47, 49, 46, 49, 13, 10,
      72, 111, 115, 116, 58, 32, 104, 116, 116, 112, 98, 105, 110, 46, 111, 114, 103, 13, 10,
      67, 111, 110, 110, 101, 99, 116, 105, 111, 110, 58, 32, 99, 108, 111, 115, 101, 13, 10,
      13, 10>>

\* the bufsize of the handshake loop's recv
HandshakeRecvSize == 1024

\* the bufsize of the tunnel loop's recv
TunnelRecvSize == 4096

----------------------------------------------------------------------------
(* uuid_module.UUID(vless_uuid).bytes, line 40.  Texts are sequences of      *)
(* character codes.                                                          *)

\* the value of a hexadecimal digit, -1 for any other character
HexVal(c) ==
    IF c >= 48 /\ c <= 57 THEN c - 48
    ELSE IF c >= 97 /\ c <= 102 THEN c - 87
    ELSE IF c >= 65 /\ c <= 70 THEN c - 55
    ELSE -1

\* the lower-case hexadecimal digit of 0..15
HexChar(n) == IF n < 10 THEN 48 + n ELSE 87 + n

RECURSIVE RemoveAll(_, _)
\* s.replace(needle, '')
RemoveAll(s, needle) ==
    IF Len(s) < Len(needle) THEN s
    ELSE IF SubSeq(s, 1, Len(needle)) = needle
         THEN RemoveAll(SubSeq(s, Len(needle) + 1, Len(s)), needle)
         ELSE <<Head(s)>> \o RemoveAll(Tail(s), needle)

RECURSIVE StripChars(_, _)
\* s.strip(chars)
StripChars(s, chars) ==
    IF s = <<>> THEN s
    ELSE IF s[1] \in chars THEN StripChars(Tail(s), chars)
    ELSE IF s[Len(s)] \in chars THEN StripChars(SubSeq(s, 1, Len(s) - 1), chars)
    ELSE s

\* the characters str.strip() and int() treat as white space
Whitespace == {9, 10, 11, 12, 13, 32}

\* int(t, 16): white space around, one sign, one 0x or 0X prefix, then
\* hexadecimal digits with single underscores between them (one may follow
\* the prefix).  digits = the digits when the text is accepted.
IntHex(t) ==
    LET a == StripChars(t, Whitespace)
        b == IF a # <<>> /\ a[1] \in {43, 45} THEN Tail(a) ELSE a
        pre == Len(b) >= 2 /\ b[1] = 48 /\ b[2] \in {120, 88}
        c == IF pre THEN SubSeq(b, 3, Len(b)) ELSE b
        d == IF pre /\ c # <<>> /\ c[1] = 95 THEN Tail(c) ELSE c
        ok == /\ d # <<>>
              /\ d[1] # 95 /\ d[Len(d)] # 95
              /\ \A i \in 1..Len(d) : d[i] = 95 \/ HexVal(d[i]) >= 0
              /\ \A i \in 1..(Len(d) - 1) : ~(d[i] = 95 /\ d[i + 1] = 95)
    IN  [ok |-> ok,
         negative |-> (a # <<>> /\ a[1] = 45),
         digits |-> IF ok THEN SelectSeq(d, LAMBDA x : x # 95) ELSE <<>>]

\* uuid.UUID(text): exc = the exception raised ("none" when the text is
\* accepted), bytes = UUID(text).bytes
ParseUUID(text) ==
    LET h1 == RemoveAll(RemoveAll(text, <<117, 114, 110, 58>>), <<117, 117, 105, 100, 58>>)
        h2 == RemoveAll(StripChars(h1, {123, 125}), <<45>>)
        n  == IntHex(h2)
        z  == [i \in 1..(32 - Len(n.digits)) |-> 48] \o n.digits
    IN  IF Len(h2) # 32 \/ ~n.ok THEN [exc |-> "ValueError", bytes |-> <<>>]
        ELSE [exc |-> "none",
              bytes |-> [i \in 1..16 |-> 16 * HexVal(z[2 * i - 1]) + HexVal(z[2 * i])]]

\* str(uuid.UUID(bytes=b)): 32 lower-case hexadecimal digits as 8-4-4-4-12
UuidText(b) ==
    LET hx == [i \in 1..32 |-> HexChar(IF i % 2 = 1 THEN b[(i + 1) \div 2] \div 16
                                                     ELSE b[i \div 2] % 16)]
    IN  SubSeq(hx, 1, 8) \o <<45>> \o SubSeq(hx, 9, 12) \o <<45>> \o SubSeq(hx, 13, 16)
            \o <<45>> \o SubSeq(hx, 17, 20) \o <<45>> \o SubSeq(hx, 21, 32)

----------------------------------------------------------------------------
(* VLESS request header, lines 38-48 *)

\* line 47: bytes([len(domain_bytes)]) raises ValueError when the length is
\* not in range(0, 256), and the script ends there with no header built
VlessHeaderError(domain_bytes) ==
    IF Len(domain_bytes) > 255 THEN "ValueError" ELSE "none"

\* lines 39-48 with the port written low byte first
VlessHeaderLE(identity, port, domain_bytes) ==
    <<0>> \o identity \o <<0>> \o <<1>> \o <<port % 256, (port \div 256) % 256>>
          \o <<2>> \o <<Len(domain_bytes)>> \o domain_bytes

\* lines 39-48, for a domain line 47 accepts
VlessHeader(identity, port, domain_bytes) ==
    <<0>> \o identity \o <<0>> \o <<1>> \o PackH(port)
          \o <<2>> \o <<Len(domain_bytes)>> \o domain_bytes

\* lines 39-48 for the constants of the script
header == VlessHeader(vless_uuid_bytes, target_port, target_host)

\* line 54 without the header: the request alone
payload_request_only == http_request

\* line 54
payload == header \o http_request

----------------------------------------------------------------------------
(* send_ws_frame, lines 58-73: the frame handed to sendall *)

\* the masking of line 71 with the key index off by one
MaskBytesShifted(data, mask) == [i \in 1..Len(data) |-> Xor(data[i], mask[(i % 4) + 1])]

\* line 71
MaskBytes(data, mask) == [i \in 1..Len(data) |-> Xor(data[i], mask[((i - 1) % 4) + 1])]

\* lines 59-67 with the short class reaching one byte too far
FrameHeadLate(length) ==
    IF length <= 126 THEN <<130, 128 + length>>
    ELSE IF length <= 65536 THEN <<130, 128 + 126>> \o PackH(length)
    ELSE <<130, 128 + 127>> \o PackQ(length)

\* lines 59-67 without the MASK bit in the short class
FrameHeadNoMaskBit(length) ==
    IF length <= 125 THEN <<130, length>>
    ELSE IF length <= 65535 THEN <<130, 128 + 126>> \o PackH(length)
    ELSE <<130, 128 + 127>> \o PackQ(length)

\* lines 59-67
FrameHead(length) ==
    IF length <= 125 THEN <<130, 128 + length>>
    ELSE IF length <= 65535 THEN <<130, 128 + 126>> \o PackH(length)
    ELSE <<130, 128 + 127>> \o PackQ(length)

\* send_ws_frame that appends the payload without masking it
send_ws_frame_plain(data, mask) == FrameHead(Len(data)) \o mask \o data

send_ws_frame(data, mask) == FrameHead(Len(data)) \o mask \o MaskBytes(data, mask)

\* os.urandom(4), line 69: the keys the model draws
Masks == {<<0, 0, 0, 0>>, <<165, 90, 255, 1>>}

----------------------------------------------------------------------------
(* The frame parse loop, lines 96-124 *)

\* lines 119-120 with the addon length left out of the slice
StripResponseHeaderNoAddon(raw) == Slice(raw, 2, Len(raw))

\* lines 119-120: addon_len = payload[1]; payload = payload[2 + addon_len:]
StripResponseHeader(raw) == Slice(raw, 2 + raw[2], Len(raw))

\* the loop of lines 98-124 with line 124 as offset += length + 1
ParseStepShortAdvance(data, off, first) ==
    LET n == Len(data) IN
    IF ~(off < n) \/ off + 2 > n THEN [stop |-> TRUE]
    ELSE
      LET opcode == data[off + 1] % 16
          len7   == data[off + 2] % 128
      IN
      IF (len7 = 126 /\ off + 4 > n) \/ (len7 = 127 /\ off + 10 > n)
      THEN [stop |-> TRUE]
      ELSE
        LET header_len == IF len7 = 126 THEN 4 ELSE IF len7 = 127 THEN 10 ELSE 2
            length == IF len7 = 126 THEN UnpackBE(Slice(data, off + 2, off + 4))
                      ELSE IF len7 = 127 THEN UnpackBE(Slice(data, off + 2, off + 10))
                      ELSE len7
            raw == Slice(data, off + header_len, off + header_len + length)
            strip == first /\ Len(raw) >= 2
            out == IF strip THEN StripResponseHeader(raw) ELSE raw
        IN  [stop |-> FALSE,
             opcode |-> opcode,
             header_len |-> header_len,
             length |-> length,
             raw |-> raw,
             stripped |-> strip,
             payload |-> out,
             text |-> DecodeIgnore(out),
             offset |-> off + length + 1,
             first_frame |-> IF strip THEN FALSE ELSE first]

\* One evaluation of the loop of lines 98-124 on the buffer from offset `off`:
\* stop = the loop ends here (the while test fails, or one of the breaks);
\* otherwise the locals of the iteration, the chunk it prints and the new
\* offset and first_frame.
ParseStep(data, off, first) ==
    LET n == Len(data) IN
    IF ~(off < n) \/ off + 2 > n THEN [stop |-> TRUE]
    ELSE
      LET opcode == data[off + 1] % 16
          len7   == data[off + 2] % 128
      IN
      IF (len7 = 126 /\ off + 4 > n) \/ (len7 = 127 /\ off + 10 > n)
      THEN [stop |-> TRUE]
      ELSE
        LET header_len == IF len7 = 126 THEN 4 ELSE IF len7 = 127 THEN 10 ELSE 2
            length == IF len7 = 126 THEN UnpackBE(Slice(data, off + 2, off + 4))
                      ELSE IF len7 = 127 THEN UnpackBE(Slice(data, off + 2, off + 10))
                      ELSE len7
            raw == Slice(data, off + header_len, off + header_len + length)
            strip == first /\ Len(raw) >= 2
            out == IF strip THEN StripResponseHeader(raw) ELSE raw
        IN  [stop |-> FALSE,
             opcode |-> opcode,
             header_len |-> header_len,
             length |-> length,
             raw |-> raw,
             stripped |-> strip,
             payload |-> out,
             text |-> DecodeIgnore(out),
             offset |-> off + header_len + length,
             first_frame |-> IF strip THEN FALSE ELSE first]

RECURSIVE ParseFrom(_, _, _)
\* the chunks the whole loop prints on a buffer, from (off, first) on
ParseFrom(data, off, first) ==
    LET r == ParseStep(data, off, first) IN
    IF r.stop THEN <<>>
    ELSE <<r.text>> \o ParseFrom(data, r.offset, r.first_frame)

\* lines 96-124 run on a whole buffer
ParseAll(data) == ParseFrom(data, 0, TRUE)

----------------------------------------------------------------------------
(* The peer *)

\* the peer's answer to the upgrade request: "101\r\n\r\n" (the script checks
\* nothing of it but the terminator)
HandshakeReply == <<49, 48, 49>> \o CRLFCRLF

PeerHead(b0, maskbit, length) ==
    IF length <= 125 THEN <<b0, maskbit + length>>
    ELSE IF length <= 65535 THEN <<b0, maskbit + 126>> \o PackH(length)
    ELSE <<b0, maskbit + 127>> \o PackQ(length)

\* a frame as the peer puts it on the wire (RFC 6455 5.2); mask = <<>> for an
\* unmasked frame
PeerEncode(f) ==
    PeerHead(128 * f.fin + f.opcode, IF f.mask = <<>> THEN 0 ELSE 128, Len(f.data))
        \o f.mask
        \o (IF f.mask = <<>> THEN f.data ELSE MaskBytes(f.data, f.mask))

RECURSIVE PeerStream(_)
PeerStream(fs) == IF fs = <<>> THEN <<>> ELSE PeerEncode(Head(fs)) \o PeerStream(Tail(fs))

Frame(fin, opcode, data) == [fin |-> fin, opcode |-> opcode, mask |-> <<>>, data |-> data]

\* the frames the peer chooses from: a VLESS response header (version 0,
\* addon length 0) followed by "AB"; a one-byte first fragment; a final
\* continuation fragment; a Close with status 1000; an empty frame; a VLESS
\* response header with one addon byte followed by "A"
FrameMenu ==
    { Frame(1, 2, <<0, 0, 65, 66>>),
      Frame(0, 2, <<0>>),
      Frame(1, 0, <<0, 65, 66>>),
      Frame(1, 8, <<3, 232>>),
      Frame(1, 2, <<>>),
      Frame(1, 2, <<0, 1, 9, 65>>) }

FrameSeqs == UNION { [1..n -> FrameMenu] : n \in 0..MaxFrames }

\* what one recv(bufsize) can do: return 1..bufsize of the bytes the peer has
\* sent, return b'' (the peer has closed), raise socket.timeout, raise another
\* OSError
RecvOutcomes(bufsize) ==
    (IF peerClosed THEN {}
     ELSE { [kind |-> "data", n |-> k] : k \in 1..Min(bufsize, Len(wire) - rpos) }
          \cup { [kind |-> "timeout", n |-> 0] })
    \cup { [kind |-> "eof", n |-> 0], [kind |-> "error", n |-> 0] }

RecvBytes(r) == SubSeq(wire, rpos + 1, rpos + r.n)

----------------------------------------------------------------------------
(* The HTTP client of src/cfspider before anything was constructed or called *)

\* no Session object yet
NoSession == [cf_proxies |-> <<>>, headers |-> <<>>, cookies |-> <<>>]

\* the record of a call that never reached a library
NoCall ==
    [caller |-> "none", called |-> FALSE,
     req_headers |-> <<>>, req_cookies |-> <<>>,
     cf_proxies |-> <<>>, cf_workers |-> TRUE, http2 |-> FALSE, impersonate |-> "",
     headers |-> <<>>, cookies |-> <<>>,
     exc |-> "none", lib |-> "none", via |-> "none", base |-> <<>>,
     lib_headers |-> <<>>, lib_cookies |-> <<>>, resp_cookies |-> <<>>]

\* api.request has not been called
NoRequests == [n |-> 0, last |-> NoCall, set_cookies |-> <<>>]

----------------------------------------------------------------------------
(* The script, one action per step *)

Init ==
    /\ pc = "connect"
    /\ error = "none"
    /\ sock = "none"
    /\ calls = [connect |-> 0, hs_send |-> 0, ws_send |-> 0, tun_recv |-> 0, close |-> 0]
    /\ sent = <<>>
    /\ peerFrames \in FrameSeqs
    /\ wire = HandshakeReply \o PeerStream(peerFrames)
    /\ rpos = 0
    /\ peerClosed = FALSE
    /\ response = <<>>
    /\ hsEnd = 0
    /\ all_data = <<>>
    /\ readEnd = "none"
    /\ offset = 0
    /\ first_frame = TRUE
    /\ parsed = <<>>
    /\ printed = <<>>
    /\ codec = [data |-> <<>>, mask |-> <<>>]
    /\ session = NoSession
    /\ loaded = {}
    /\ reqlog = NoRequests

\* Crash as a client that answers a failure by going back to the handshake
CrashRetry(exc) ==
    /\ pc' = "hs_send"
    /\ error' = exc
    /\ sock' = sock

\* an exception nothing catches: the interpreter exits, which closes the
\* socket without a call of close()
Crash(exc) ==
    /\ pc' = "crashed"
    /\ error' = exc
    /\ sock' = IF sock = "open" THEN "closed" ELSE sock

Bump(op) == [calls EXCEPT ![op] = @ + 1]

\* lines 17-19: create_connection and wrap_socket.  create_connection can
\* raise before a socket exists; wrap_socket can raise (ssl.SSLError, an
\* OSError) on the socket line 17 has opened, which the exit then closes
Connect ==
    /\ pc = "connect"
    /\ calls' = Bump("connect")
    /\ \/ /\ pc' = "hs_send"
          /\ sock' = "open"
          /\ error' = error
       \/ Crash("OSError")
       \/ /\ pc' = "crashed"
          /\ error' = "OSError"
          /\ sock' = "closed"
    /\ UNCHANGED <<codec, sent, peerFrames, wire, rpos, peerClosed, response, hsEnd,
                   all_data, readEnd, offset, first_frame, parsed, printed>>
    /\ UNCHANGED web

\* lines 22-32: the upgrade request
SendHandshake ==
    /\ pc = "hs_send"
    /\ calls' = Bump("hs_send")
    /\ \/ /\ pc' = "hs_recv"
          /\ sent' = Append(sent, [kind |-> "upgrade", path |-> path, host |-> host])
          /\ UNCHANGED <<error, sock>>
       \/ /\ Crash("OSError")
          /\ sent' = sent
    /\ UNCHANGED <<codec, peerFrames, wire, rpos, peerClosed, response, hsEnd,
                   all_data, readEnd, offset, first_frame, parsed, printed>>
    /\ UNCHANGED web

\* lines 34-36: one evaluation of the while test, and the recv of its body
HandshakeLoop ==
    /\ pc = "hs_recv"
    /\ IF Contains(response, CRLFCRLF)
       THEN /\ pc' = "ws_send"
            /\ hsEnd' = rpos
            /\ UNCHANGED <<error, sock, response, rpos, peerClosed>>
       ELSE \E r \in RecvOutcomes(HandshakeRecvSize) :
              /\ hsEnd' = hsEnd
              /\ \/ /\ r.kind = "data"
                    /\ response' = response \o RecvBytes(r)
                    /\ rpos' = rpos + r.n
                    /\ UNCHANGED <<pc, error, sock, peerClosed>>
                 \/ /\ r.kind = "eof"
                    /\ response' = response \o <<>>
                    /\ peerClosed' = TRUE
                    /\ UNCHANGED <<pc, error, sock, rpos>>
                 \/ /\ r.kind = "timeout"
                    /\ Crash("socket.timeout")
                    /\ UNCHANGED <<response, rpos, peerClosed>>
                 \/ /\ r.kind = "error"
                    /\ Crash("OSError")
                    /\ UNCHANGED <<response, rpos, peerClosed>>
    /\ UNCHANGED <<codec, calls, sent, peerFrames, wire, all_data, readEnd, offset,
                   first_frame, parsed, printed>>
    /\ UNCHANGED web

\* lines 38-81: build the payload, send_ws_frame(sock, payload), then the
\* set-up of the read loop
SendFrame ==
    /\ pc = "ws_send"
    /\ calls' = Bump("ws_send")
    /\ \E mask \in Masks :
         \/ /\ sent' = Append(sent, [kind |-> "frame", bytes |-> send_ws_frame(payload, mask)])
            /\ pc' = "tun_recv"
            /\ all_data' = <<>>
            /\ UNCHANGED <<error, sock>>
         \/ /\ Crash("OSError")
            /\ UNCHANGED <<sent, all_data>>
    /\ UNCHANGED <<codec, peerFrames, wire, rpos, peerClosed, response, hsEnd,
                   readEnd, offset, first_frame, parsed, printed>>
    /\ UNCHANGED web

\* lines 82-97: one recv of the drain loop; the loop's three exits all go on
\* to the parse loop
TunnelRecv ==
    /\ pc = "tun_recv"
    /\ calls' = Bump("tun_recv")
    /\ \E r \in RecvOutcomes(TunnelRecvSize) :
         \/ /\ r.kind = "data"
            /\ all_data' = all_data \o RecvBytes(r)
            /\ rpos' = rpos + r.n
            /\ UNCHANGED <<pc, peerClosed, readEnd, offset, first_frame>>
         \/ /\ r.kind # "data"
            /\ readEnd' = r.kind
            /\ peerClosed' = (peerClosed \/ r.kind = "eof")
            /\ pc' = "parse"
            /\ offset' = 0
            /\ first_frame' = TRUE
            /\ UNCHANGED <<all_data, rpos>>
    /\ UNCHANGED <<codec, error, sock, sent, peerFrames, wire, response, hsEnd, parsed, printed>>
    /\ UNCHANGED web

\* lines 98-124: one iteration of the parse loop
ParseFrame ==
    /\ pc = "parse"
    /\ LET r == ParseStep(all_data, offset, first_frame) IN
       IF r.stop
       THEN /\ pc' = "close"
            /\ UNCHANGED <<offset, first_frame, parsed, printed>>
       ELSE /\ printed' = Append(printed, r.text)
            /\ parsed' = Append(parsed, [at |-> offset, opcode |-> r.opcode,
                                         raw |-> r.raw, stripped |-> r.stripped,
                                         payload |-> r.payload])
            /\ offset' = r.offset
            /\ first_frame' = r.first_frame
            /\ pc' = pc
    /\ UNCHANGED <<codec, error, sock, calls, sent, peerFrames, wire, rpos, peerClosed,
                   response, hsEnd, all_data, readEnd>>
    /\ UNCHANGED web

\* line 126
Close ==
    /\ pc = "close"
    /\ calls' = Bump("close")
    /\ sock' = "closed"
    /\ pc' = "done"
    /\ UNCHANGED <<codec, error, sent, peerFrames, wire, rpos, peerClosed, response, hsEnd,
                   all_data, readEnd, offset, first_frame, parsed, printed>>
    /\ UNCHANGED web

Next ==
    \/ Connect
    \/ SendHandshake
    \/ HandshakeLoop
    \/ SendFrame
    \/ TunnelRecv
    \/ ParseFrame
    \/ Close

Spec == Init /\ [][Next]_vars

----------------------------------------------------------------------------
(* The frame codec on its own: send_ws_frame's output handed to the parse   *)
(* loop of lines 96-124                                                      *)

\* a payload of a codec run has at most this many bytes
MaxPayload == 3

CodecBytes == {0, 65, 200}

CodecPayloads == UNION { [1..n -> CodecBytes] : n \in 0..MaxPayload }

CodecInit ==
    /\ pc = "encode"
    /\ codec \in [data : CodecPayloads, mask : Masks]
    /\ error = "none"
    /\ sock = "none"
    /\ calls = [connect |-> 0, hs_send |-> 0, ws_send |-> 0, tun_recv |-> 0, close |-> 0]
    /\ sent = <<>>
    /\ peerFrames = <<>>
    /\ wire = <<>>
    /\ rpos = 0
    /\ peerClosed = FALSE
    /\ response = <<>>
    /\ hsEnd = 0
    /\ all_data = <<>>
    /\ readEnd = "none"
    /\ offset = 0
    /\ first_frame = TRUE
    /\ parsed = <<>>
    /\ printed = <<>>
    /\ session = NoSession
    /\ loaded = {}
    /\ reqlog = NoRequests

\* lines 59-72 build the frame; it becomes the buffer of lines 96-97
CodecEncode ==
    /\ pc = "encode"
    /\ all_data' = send_ws_frame(codec.data, codec.mask)
    /\ offset' = 0
    /\ first_frame' = TRUE
    /\ pc' = "parse"
    /\ UNCHANGED <<codec, error, sock, calls, sent, peerFrames, wire, rpos, peerClosed,
                   response, hsEnd, readEnd, parsed, printed>>
    /\ UNCHANGED web

CodecNext ==
    \/ CodecEncode
    \/ ParseFrame

CodecSpec == CodecInit /\ [][CodecNext]_vars

----------------------------------------------------------------------------
(* The script against a peer that also sends frames a server should not:    *)
(* a masked frame, and a payload that is not UTF-8                          *)

\* a masked binary frame (key 01 02 03 04) carrying a VLESS response header
\* and "AB"; a binary frame carrying a VLESS response header, the byte C8 and
\* "A"; a binary frame carrying "A"
OddMenu ==
    { [fin |-> 1, opcode |-> 2, mask |-> <<1, 2, 3, 4>>, data |-> <<0, 0, 65, 66>>],
      Frame(1, 2, <<0, 0, 200, 65>>),
      Frame(1, 2, <<65>>) }

OddSeqs == UNION { [1..n -> OddMenu] : n \in 0..MaxFrames }

OddInit ==
    /\ pc = "connect"
    /\ error = "none"
    /\ sock = "none"
    /\ calls = [connect |-> 0, hs_send |-> 0, ws_send |-> 0, tun_recv |-> 0, close |-> 0]
    /\ sent = <<>>
    /\ peerFrames \in OddSeqs
    /\ wire = HandshakeReply \o PeerStream(peerFrames)
    /\ rpos = 0
    /\ peerClosed = FALSE
    /\ response = <<>>
    /\ hsEnd = 0
    /\ all_data = <<>>
    /\ readEnd = "none"
    /\ offset = 0
    /\ first_frame = TRUE
    /\ parsed = <<>>
    /\ printed = <<>>
    /\ codec = [data |-> <<>>, mask |-> <<>>]
    /\ session = NoSession
    /\ loaded = {}
    /\ reqlog = NoRequests

OddSpec == OddInit /\ [][Next]_vars

----------------------------------------------------------------------------
(* The script against a peer that sends control frames and a frame with a    *)
(* reserved opcode among its data frames                                     *)

\* a binary frame carrying a VLESS response header and "AB"; a frame with
\* the reserved opcode 3 carrying 00 00 "A"; a Ping carrying "PI"; a Pong
\* carrying "PO"
CtrlMenu ==
    { Frame(1, 2, <<0, 0, 65, 66>>),
      Frame(1, 3, <<0, 0, 65>>),
      Frame(1, 9, <<80, 73>>),
      Frame(1, 10, <<80, 79>>) }

CtrlSeqs == UNION { [1..n -> CtrlMenu] : n \in 0..MaxFrames }

CtrlInit ==
    /\ pc = "connect"
    /\ error = "none"
    /\ sock = "none"
    /\ calls = [connect |-> 0, hs_send |-> 0, ws_send |-> 0, tun_recv |-> 0, close |-> 0]
    /\ sent = <<>>
    /\ peerFrames \in CtrlSeqs
    /\ wire = HandshakeReply \o PeerStream(peerFrames)
    /\ rpos = 0
    /\ peerClosed = FALSE
    /\ response = <<>>
    /\ hsEnd = 0
    /\ all_data = <<>>
    /\ readEnd = "none"
    /\ offset = 0
    /\ first_frame = TRUE
    /\ parsed = <<>>
    /\ printed = <<>>
    /\ codec = [data |-> <<>>, mask |-> <<>>]
    /\ session = NoSession
    /\ loaded = {}
    /\ reqlog = NoRequests

CtrlSpec == CtrlInit /\ [][Next]_vars

----------------------------------------------------------------------------
(* The script run with other identity texts in vless_uuid (line 12)          *)

\* the text of line 12
vless_uuid == UuidText(vless_uuid_bytes)

\* the identity texts of a run: the canonical text; without dashes; in
\* braces; with the urn:uuid: prefix; in upper case; one digit short; with a
\* character that is no hexadecimal digit; empty; with a trailing blank;
\* 0x and 30 digits
IdentityTexts ==
    { vless_uuid,
      RemoveAll(vless_uuid, <<45>>),
      <<123>> \o vless_uuid \o <<125>>,
      <<117, 114, 110, 58, 117, 117, 105, 100, 58>> \o vless_uuid,
      [i \in 1..36 |-> IF vless_uuid[i] >= 97 THEN vless_uuid[i] - 32 ELSE vless_uuid[i]],
      SubSeq(vless_uuid, 1, 35),
      <<122>> \o SubSeq(vless_uuid, 2, 36),
      <<>>,
      vless_uuid \o <<32>>,
      <<48, 120>> \o SubSeq(RemoveAll(vless_uuid, <<45>>), 1, 30) }

IdentityInit ==
    /\ pc = "connect"
    /\ codec \in [text : IdentityTexts]
    /\ error = "none"
    /\ sock = "none"
    /\ calls = [connect |-> 0, hs_send |-> 0, ws_send |-> 0, tun_recv |-> 0, close |-> 0]
    /\ sent = <<>>
    /\ peerFrames \in {<<>>, <<Frame(1, 2, <<0, 0, 65, 66>>)>>}
    /\ wire = HandshakeReply \o PeerStream(peerFrames)
    /\ rpos = 0
    /\ peerClosed = FALSE
    /\ response = <<>>
    /\ hsEnd = 0
    /\ all_data = <<>>
    /\ readEnd = "none"
    /\ offset = 0
    /\ first_frame = TRUE
    /\ parsed = <<>>
    /\ printed = <<>>
    /\ session = NoSession
    /\ loaded = {}
    /\ reqlog = NoRequests

\* lines 38-81 with the identity text of the run: line 40 parses it, and
\* what it raises ends the script
SendFrameIdentity ==
    /\ pc = "ws_send"
    /\ LET u == ParseUUID(codec.text) IN
       IF u.exc # "none"
       THEN /\ Crash(u.exc)
            /\ UNCHANGED <<calls, sent, all_data>>
       ELSE /\ calls' = Bump("ws_send")
            /\ \E mask \in Masks :
                 \/ /\ sent' = Append(sent,
                              [kind |-> "frame",
                               bytes |-> send_ws_frame(
                                   VlessHeader(u.bytes, target_port, target_host)
                                       \o http_request, mask)])
                    /\ pc' = "tun_recv"
                    /\ all_data' = <<>>
                    /\ UNCHANGED <<error, sock>>
                 \/ /\ Crash("OSError")
                    /\ UNCHANGED <<sent, all_data>>
    /\ UNCHANGED <<codec, peerFrames, wire, rpos, peerClosed, response, hsEnd,
                   readEnd, offset, first_frame, parsed, printed>>
    /\ UNCHANGED web

IdentityNext ==
    \/ Connect
    \/ SendHandshake
    \/ HandshakeLoop
    \/ SendFrameIdentity
    \/ TunnelRecv
    \/ ParseFrame
    \/ Close

IdentitySpec == IdentityInit /\ [][IdentityNext]_vars

----------------------------------------------------------------------------
(* The HTTP client: Session of src/cfspider/session.py over request() of     *)
(* src/cfspider/api.py.  A dict is the sequence of its <<key, value>> items  *)
(* in insertion order; texts are sequences of character codes.               *)

\* one Session makes at most this many requests
MaxRequests == 2

DictHas(d, k) == \E i \in 1..Len(d) : d[i][1] = k

\* d[k]
DictVal(d, k) == d[CHOOSE i \in 1..Len(d) : d[i][1] = k][2]

\* d[k] = v
DictSet(d, k, v) ==
    IF DictHas(d, k)
    THEN [i \in 1..Len(d) |-> IF d[i][1] = k THEN <<k, v>> ELSE d[i]]
    ELSE Append(d, <<k, v>>)

\* d.update(e) for which an entry of d is never overwritten
RECURSIVE DictUpdateKeep(_, _)
DictUpdateKeep(d, e) ==
    IF e = <<>> THEN d
    ELSE DictUpdateKeep(IF DictHas(d, e[1][1]) THEN d ELSE DictSet(d, e[1][1], e[1][2]),
                        Tail(e))

RECURSIVE DictUpdate(_, _)
\* d.update(e)
DictUpdate(d, e) ==
    IF e = <<>> THEN d
    ELSE DictUpdate(DictSet(d, e[1][1], e[1][2]), Tail(e))

\* "https://", "http://", "socks5://"
Https == <<104, 116, 116, 112, 115, 58, 47, 47>>
Http == <<104, 116, 116, 112, 58, 47, 47>>
Socks5 == <<115, 111, 99, 107, 115, 53, 58, 47, 47>>

StartsWith(t, pre) == Len(t) >= Len(pre) /\ SubSeq(t, 1, Len(pre)) = pre

RECURSIVE RStrip(_, _)
\* t.rstrip(chars)
RStrip(t, chars) ==
    IF t # <<>> /\ t[Len(t)] \in chars THEN RStrip(SubSeq(t, 1, Len(t) - 1), chars) ELSE t

\* the cf_proxies texts of the model: "https://w.dev", "https://w.dev/",
\* "w.dev"
ProxyTexts ==
    { Https \o <<119, 46, 100, 101, 118>>,
      Https \o <<119, 46, 100, 101, 118, 47>>,
      <<119, 46, 100, 101, 118>> }

HeaderKeys == {"Authorization", "Accept"}
CookieKeys == {"sid"}

\* a keyword argument of a call: left out, None, or a dict
Absent == [kind |-> "absent", d |-> <<>>]
NoneArg == [kind |-> "None", d |-> <<>>]
DictArg(d) == [kind |-> "dict", d |-> d]

\* the headers= and cookies= a call of Session.request is given
RequestHeaders == {Absent, NoneArg, DictArg(<<<<"Authorization", 2>>>>)}
RequestCookies == {Absent, DictArg(<<<<"sid", 2>>>>)}

\* the other keyword arguments a call is given: none; http2; impersonate;
\* both; cf_workers=False; cf_proxies
RequestKwargs ==
    { [cf_proxies |-> FALSE, http2 |-> FALSE, impersonate |-> "", cf_workers |-> TRUE],
      [cf_proxies |-> FALSE, http2 |-> TRUE, impersonate |-> "", cf_workers |-> TRUE],
      [cf_proxies |-> FALSE, http2 |-> FALSE, impersonate |-> "chrome131", cf_workers |-> TRUE],
      [cf_proxies |-> FALSE, http2 |-> TRUE, impersonate |-> "chrome131", cf_workers |-> TRUE],
      [cf_proxies |-> FALSE, http2 |-> FALSE, impersonate |-> "", cf_workers |-> FALSE],
      [cf_proxies |-> TRUE, http2 |-> FALSE, impersonate |-> "", cf_workers |-> TRUE] }

\* what the environment does to a call: the exchange works and the response
\* sets no cookie, or the cookie sid; a late import fails; the exchange fails
EnvOutcomes ==
    { [import_ok |-> TRUE, net_ok |-> TRUE, resp_cookies |-> <<>>],
      [import_ok |-> TRUE, net_ok |-> TRUE, resp_cookies |-> <<<<"sid", 3>>>>],
      [import_ok |-> FALSE, net_ok |-> TRUE, resp_cookies |-> <<>>],
      [import_ok |-> TRUE, net_ok |-> FALSE, resp_cookies |-> <<>>] }

\* api.py lines 23-36 and 41-54: _get_httpx() / _get_curl_cffi() succeed when
\* the module is loaded already or the import works now
GetLib(lib, import_ok) == lib \in loaded \/ import_ok

\* api.py lines 358-368, 462-470, 538-547: the headers sent to the Workers
\* endpoint: every header under the key prefix X-CFSpider-Header-, and the
\* cookies joined into X-CFSpider-Header-Cookie
WorkersHeaders(headers, cookies) ==
    LET fromHeaders ==
            DictUpdate(<<>>, [i \in 1..Len(headers) |->
                                <<<<"X-CFSpider-Header-", headers[i][1]>>, headers[i][2]>>])
    IN  IF cookies # <<>>
        THEN DictSet(fromHeaders, <<"X-CFSpider-Header-", "Cookie">>, cookies)
        ELSE fromHeaders

\* request() of api.py, lines 167-384, with _request_impersonate (409-486)
\* and _request_httpx (489-561), for a call without delay, stealth and
\* map_output: which library is called, how, and with which headers and
\* cookies.  a = the arguments; import_ok, net_ok = what the environment
\* does to a late import and to the HTTP exchange.
Request(a, import_ok, net_ok) ==
    LET lib == IF a.impersonate # "" THEN "curl_cffi"
               ELSE IF a.http2 THEN "httpx"
               ELSE "requests"
        via == IF a.cf_proxies = <<>> THEN "direct"
               ELSE IF ~a.cf_workers THEN "proxy"
               ELSE "workers"
        stripped == RStrip(a.cf_proxies, {47})
        base == IF via = "direct" THEN <<>>
                ELSE IF via = "proxy"
                THEN (IF StartsWith(a.cf_proxies, Http) \/ StartsWith(a.cf_proxies, Https)
                         \/ StartsWith(a.cf_proxies, Socks5)
                      THEN a.cf_proxies ELSE Http \o a.cf_proxies)
                ELSE (IF StartsWith(stripped, Http) \/ StartsWith(stripped, Https)
                      THEN stripped ELSE Https \o stripped)
    IN  IF lib # "requests" /\ ~GetLib(lib, import_ok)
        THEN [exc |-> "ImportError", lib |-> "none", via |-> via, base |-> <<>>,
              lib_headers |-> <<>>, lib_cookies |-> <<>>]
        ELSE [exc |-> IF net_ok THEN "none" ELSE "RequestException",
              lib |-> lib,
              via |-> via,
              base |-> base,
              lib_headers |-> IF via = "workers" THEN WorkersHeaders(a.headers, a.cookies)
                              ELSE a.headers,
              lib_cookies |-> IF via = "workers" THEN <<>> ELSE a.cookies]

\* the record of one call of request() kept in reqlog.last
Logged(caller, given, a, out, resp_cookies) ==
    [caller |-> caller, called |-> TRUE,
     req_headers |-> given.headers, req_cookies |-> given.cookies,
     cf_proxies |-> a.cf_proxies, cf_workers |-> a.cf_workers,
     http2 |-> a.http2, impersonate |-> a.impersonate,
     headers |-> a.headers, cookies |-> a.cookies,
     exc |-> out.exc, lib |-> out.lib, via |-> out.via, base |-> out.base,
     lib_headers |-> out.lib_headers, lib_cookies |-> out.lib_cookies,
     resp_cookies |-> IF out.exc = "none" THEN resp_cookies ELSE <<>>]

\* the record of a Session.request that raised before it called request()
NotCalled(exc) == [NoCall EXCEPT !.caller = "session", !.exc = exc]

WebInit ==
    /\ pc = "new"
    /\ error = "none"
    /\ session = NoSession
    /\ loaded = {}
    /\ reqlog = NoRequests
    /\ sock = "none"
    /\ calls = [connect |-> 0, hs_send |-> 0, ws_send |-> 0, tun_recv |-> 0, close |-> 0]
    /\ sent = <<>>
    /\ peerFrames = <<>>
    /\ wire = <<>>
    /\ rpos = 0
    /\ peerClosed = FALSE
    /\ response = <<>>
    /\ hsEnd = 0
    /\ all_data = <<>>
    /\ readEnd = "none"
    /\ offset = 0
    /\ first_frame = TRUE
    /\ parsed = <<>>
    /\ printed = <<>>
    /\ codec = [data |-> <<>>, mask |-> <<>>]

\* session.py lines 42-67: Session(cf_proxies)
NewSession ==
    /\ pc = "new"
    /\ \E cf \in ProxyTexts \cup {<<>>} :
         IF cf = <<>>
         THEN /\ error' = "ValueError"
              /\ pc' = "failed"
              /\ UNCHANGED session
         ELSE /\ session' = [cf_proxies |-> RStrip(cf, {47}), headers |-> <<>>,
                             cookies |-> <<>>]
              /\ pc' = "ready"
              /\ UNCHANGED error
    /\ UNCHANGED <<loaded, reqlog>>
    /\ UNCHANGED tunnel

\* session.py line 28: the caller sets a session-level header
SetHeader ==
    /\ pc = "ready"
    /\ \E k \in HeaderKeys :
         session' = [session EXCEPT !.headers = DictSet(@, k, 1)]
    /\ UNCHANGED <<pc, error, loaded, reqlog>>
    /\ UNCHANGED tunnel

\* session.py line 20: the caller sets a session-level cookie
SetCookie ==
    /\ pc = "ready"
    /\ \E k \in CookieKeys :
         session' = [session EXCEPT !.cookies = DictSet(@, k, 1)]
    /\ UNCHANGED <<pc, error, loaded, reqlog>>
    /\ UNCHANGED tunnel

\* what a call of request() leaves behind in the module and the log
AfterRequest(caller, given, a, import_ok, net_ok, resp_cookies) ==
    LET out == Request(a, import_ok, net_ok) IN
    /\ loaded' = IF out.lib \in {"httpx", "curl_cffi"} THEN loaded \cup {out.lib} ELSE loaded
    /\ reqlog' = [n |-> reqlog.n + 1,
                  last |-> Logged(caller, given, a, out, resp_cookies),
                  set_cookies |-> IF out.exc = "none" /\ caller = "session"
                                  THEN DictUpdate(reqlog.set_cookies, resp_cookies)
                                  ELSE reqlog.set_cookies]
    /\ error' = out.exc

\* session.py lines 68-97: Session.request(method, url, **kwargs)
SessionRequest ==
    /\ pc = "ready"
    /\ reqlog.n < MaxRequests
    /\ \E h \in RequestHeaders, c \in RequestCookies, kw \in RequestKwargs, env \in EnvOutcomes :
         IF h.kind = "None" \/ c.kind = "None" \/ kw.cf_proxies
         THEN \* dict.update(None), or cf_proxies given twice: TypeError
              /\ reqlog' = [reqlog EXCEPT !.n = @ + 1, !.last = NotCalled("TypeError")]
              /\ error' = "TypeError"
              /\ UNCHANGED loaded
         ELSE LET headers == DictUpdate(session.headers, h.d)
                  cookies == DictUpdate(session.cookies, c.d)
              IN  AfterRequest("session", [headers |-> h.d, cookies |-> c.d],
                               [cf_proxies |-> session.cf_proxies,
                                cf_workers |-> kw.cf_workers, http2 |-> kw.http2,
                                impersonate |-> kw.impersonate,
                                headers |-> headers, cookies |-> cookies],
                               env.import_ok, env.net_ok, env.resp_cookies)
    /\ UNCHANGED <<pc, session>>
    /\ UNCHANGED tunnel

\* api.py lines 167-384: request(method, url, ...) called directly
ApiRequest ==
    /\ pc \in {"new", "ready"}
    /\ reqlog.n < MaxRequests
    /\ \E kw \in RequestKwargs, env \in EnvOutcomes :
         AfterRequest("direct",
                      [headers |-> <<<<"Accept", 2>>>>, cookies |-> <<<<"sid", 2>>>>],
                      [cf_proxies |-> IF kw.cf_proxies THEN Https \o <<119, 46, 100, 101, 118>>
                                      ELSE <<>>,
                       cf_workers |-> kw.cf_workers, http2 |-> kw.http2,
                       impersonate |-> kw.impersonate,
                       headers |-> <<<<"Accept", 2>>>>, cookies |-> <<<<"sid", 2>>>>],
                      env.import_ok, env.net_ok, env.resp_cookies)
    /\ UNCHANGED <<pc, session>>
    /\ UNCHANGED tunnel

WebNext ==
    \/ NewSession
    \/ SetHeader
    \/ SetCookie
    \/ SessionRequest
    \/ ApiRequest

WebSpec == WebInit /\ [][WebNext]_vars

----------------------------------------------------------------------------
(* send_ws_frame on its own, lines 58-73: called with payloads of every      *)
(* length class and handed to sendall                                        *)

\* the payloads of an encoder run have every length up to this one, and the
\* lengths on both sides of the two class boundaries
MaxEncodeLen == 24

BoundaryLengths == {125, 126, 127, 65535, 65536}

\* a payload of n bytes whose bytes differ from their neighbours
Fill(n) == [i \in 1..n |-> (7 * i + 3) % 256]

EncodePayloads ==
    CodecPayloads \cup { Fill(n) : n \in (0..MaxEncodeLen) \cup BoundaryLengths }

\* os.urandom(4), line 69: the keys an encoder run draws
EncodeMasks == Masks \cup {<<1, 2, 4, 8>>, <<255, 255, 255, 255>>}

EncodeInit ==
    /\ pc = "ws_send"
    /\ codec \in [data : EncodePayloads, mask : EncodeMasks]
    /\ error = "none"
    /\ sock = "open"
    /\ calls = [connect |-> 0, hs_send |-> 0, ws_send |-> 0, tun_recv |-> 0, close |-> 0]
    /\ sent = <<>>
    /\ peerFrames = <<>>
    /\ wire = <<>>
    /\ rpos = 0
    /\ peerClosed = FALSE
    /\ response = <<>>
    /\ hsEnd = 0
    /\ all_data = <<>>
    /\ readEnd = "none"
    /\ offset = 0
    /\ first_frame = TRUE
    /\ parsed = <<>>
    /\ printed = <<>>
    /\ session = NoSession
    /\ loaded = {}
    /\ reqlog = NoRequests

\* lines 58-73: send_ws_frame(sock, data) for the payload of the run
EncodeFrame ==
    /\ pc = "ws_send"
    /\ calls' = Bump("ws_send")
    /\ sent' = Append(sent, [kind |-> "frame", bytes |-> send_ws_frame(codec.data, codec.mask)])
    /\ pc' = "tun_recv"
    /\ UNCHANGED <<codec, error, sock, peerFrames, wire, rpos, peerClosed, response, hsEnd,
                   all_data, readEnd, offset, first_frame, parsed, printed>>
    /\ UNCHANGED web

EncodeNext == EncodeFrame

EncodeSpec == EncodeInit /\ [][EncodeNext]_vars

----------------------------------------------------------------------------
(* The VLESS request header on its own, lines 38-48: built for several       *)
(* identities, ports and domains                                             *)

\* the domains of a header run have every length from 1 up to this one, and
\* the lengths around the limit of the one-byte length field
MaxDomain == 6

\* a domain of n lower-case letters
DomainOf(n) == [i \in 1..n |-> 97 + (i % 26)]

HeaderDomains == {target_host} \cup { DomainOf(n) : n \in (1..MaxDomain) \cup {254, 255, 256, 300} }

HeaderPorts == {0, 80, 255, 256, 443, 65535}

HeaderIdentities == {vless_uuid_bytes, [i \in 1..16 |-> 16 * i - 1]}

HeaderInit ==
    /\ pc = "header"
    /\ codec \in [identity : HeaderIdentities, port : HeaderPorts, domain : HeaderDomains,
                   header : {<<>>}]
    /\ error = "none"
    /\ sock = "open"
    /\ calls = [connect |-> 0, hs_send |-> 0, ws_send |-> 0, tun_recv |-> 0, close |-> 0]
    /\ sent = <<>>
    /\ peerFrames = <<>>
    /\ wire = <<>>
    /\ rpos = 0
    /\ peerClosed = FALSE
    /\ response = <<>>
    /\ hsEnd = 0
    /\ all_data = <<>>
    /\ readEnd = "none"
    /\ offset = 0
    /\ first_frame = TRUE
    /\ parsed = <<>>
    /\ printed = <<>>
    /\ session = NoSession
    /\ loaded = {}
    /\ reqlog = NoRequests

\* lines 38-48
BuildHeader ==
    /\ pc = "header"
    /\ IF VlessHeaderError(codec.domain) # "none"
       THEN /\ Crash(VlessHeaderError(codec.domain))
            /\ UNCHANGED codec
       ELSE /\ codec' = [codec EXCEPT
                           !.header = VlessHeader(codec.identity, codec.port, codec.domain)]
            /\ pc' = "ws_send"
            /\ UNCHANGED <<error, sock>>
    /\ UNCHANGED <<calls, sent, peerFrames, wire, rpos, peerClosed, response, hsEnd,
                   all_data, readEnd, offset, first_frame, parsed, printed>>
    /\ UNCHANGED web

HeaderNext == BuildHeader

HeaderSpec == HeaderInit /\ [][HeaderNext]_vars

----------------------------------------------------------------------------
(* The parse loop on a buffer holding one whole frame whose payload is a     *)
(* VLESS response header (version, addon length, addon) followed by data     *)

\* the addon of a strip run has at most this many bytes (and one addon of 60)
MaxAddon == 2

StripAddons == UNION { [1..n -> {9, 255}] : n \in 0..MaxAddon } \cup {Fill(60)}

StripVersions == {0, 1}

\* the payload of the frame of a strip run
StripInput(c) == <<c.version, Len(c.addon)>> \o c.addon \o c.rest

StripInit ==
    /\ pc = "parse"
    /\ codec \in [version : StripVersions, addon : StripAddons, rest : CodecPayloads]
    /\ peerFrames = <<Frame(1, 2, StripInput(codec))>>
    /\ wire = PeerStream(peerFrames)
    /\ all_data = wire
    /\ rpos = Len(wire)
    /\ error = "none"
    /\ sock = "open"
    /\ calls = [connect |-> 0, hs_send |-> 0, ws_send |-> 0, tun_recv |-> 0, close |-> 0]
    /\ sent = <<>>
    /\ peerClosed = FALSE
    /\ response = <<>>
    /\ hsEnd = 0
    /\ readEnd = "timeout"
    /\ offset = 0
    /\ first_frame = TRUE
    /\ parsed = <<>>
    /\ printed = <<>>
    /\ session = NoSession
    /\ loaded = {}
    /\ reqlog = NoRequests

StripNext == ParseFrame

StripSpec == StripInit /\ [][StripNext]_vars

----------------------------------------------------------------------------
(* The parse loop on a buffer holding two whole frames: a VLESS response     *)
(* header followed by data, cut at any place into the two payloads           *)

SplitAddons == UNION { [1..n -> {9, 65}] : n \in 0..MaxAddon }

SplitInit ==
    /\ pc = "parse"
    /\ \E c \in [version : StripVersions, addon : SplitAddons, rest : CodecPayloads] :
         \E k \in 0..Len(StripInput(c)) :
            codec = [version |-> c.version, addon |-> c.addon, rest |-> c.rest, cut |-> k]
    /\ peerFrames = << Frame(1, 2, SubSeq(StripInput(codec), 1, codec.cut)),
                       Frame(1, 2, SubSeq(StripInput(codec), codec.cut + 1,
                                          Len(StripInput(codec)))) >>
    /\ wire = PeerStream(peerFrames)
    /\ all_data = wire
    /\ rpos = Len(wire)
    /\ error = "none"
    /\ sock = "open"
    /\ calls = [connect |-> 0, hs_send |-> 0, ws_send |-> 0, tun_recv |-> 0, close |-> 0]
    /\ sent = <<>>
    /\ peerClosed = FALSE
    /\ response = <<>>
    /\ hsEnd = 0
    /\ readEnd = "timeout"
    /\ offset = 0
    /\ first_frame = TRUE
    /\ parsed = <<>>
    /\ printed = <<>>
    /\ session = NoSession
    /\ loaded = {}
    /\ reqlog = NoRequests

SplitNext == ParseFrame

SplitSpec == SplitInit /\ [][SplitNext]_vars

----------------------------------------------------------------------------
(* The tunnel read loop and the parse loop, lines 82-124, on an inbound     *)
(* byte stream of any content                                                *)

\* the inbound stream of a drain run has at most this many bytes (and a few
\* longer streams that reach the 16-bit and 64-bit length fields)
MaxBuffer == 4

\* as second byte of a frame: the lengths 0 and 2, and the two extended
\* length fields
BufferBytes == {0, 2, 126, 127}

\* a whole frame with a 16-bit length; a whole frame with a 64-bit length; a
\* 64-bit length of 9 with one byte of payload in the buffer; a 64-bit length
\* of 2^56 and no payload
LongBuffers ==
    { <<130, 126, 0, 1, 65>>,
      <<130, 127, 0, 0, 0, 0, 0, 0, 0, 1, 65>>,
      <<130, 127, 0, 0, 0, 0, 0, 0, 0, 9, 65>>,
      <<130, 127, 1, 0, 0, 0, 0, 0, 0, 0>> }

Buffers == UNION { [1..n -> BufferBytes] : n \in 0..MaxBuffer } \cup LongBuffers

\* line 81: the handshake and the frame write are done, all_data = b''
DrainInit ==
    /\ pc = "tun_recv"
    /\ wire \in Buffers
    /\ rpos = 0
    /\ all_data = <<>>
    /\ peerFrames = <<>>
    /\ error = "none"
    /\ sock = "open"
    /\ calls = [connect |-> 1, hs_send |-> 1, ws_send |-> 1, tun_recv |-> 0, close |-> 0]
    /\ sent = <<>>
    /\ peerClosed = FALSE
    /\ response = <<>>
    /\ hsEnd = 0
    /\ readEnd = "none"
    /\ offset = 0
    /\ first_frame = TRUE
    /\ parsed = <<>>
    /\ printed = <<>>
    /\ codec = [data |-> <<>>, mask |-> <<>>]
    /\ session = NoSession
    /\ loaded = {}
    /\ reqlog = NoRequests

DrainNext ==
    \/ TunnelRecv
    \/ ParseFrame

DrainSpec == DrainInit /\ [][DrainNext]_vars

\* the interpreter goes on to the next statement of the script, and a recv
\* under settimeout(2) (line 80) returns or raises
DrainLive == DrainSpec /\ WF_vars(TunnelRecv) /\ WF_vars(ParseFrame)

----------------------------------------------------------------------------
(* Views of the state used by the properties *)

\* bit j of the byte x
Bit(x, j) == (x \div (2 ^ j)) % 2

\* where the payload field of a frame built by send_ws_frame starts, read
\* from the frame's own length marker: header length and masking key
BodyStart(fr) ==
    (IF fr[2] % 128 = 126 THEN 4 ELSE IF fr[2] % 128 = 127 THEN 10 ELSE 2) + 4

\* the text is a canonical UUID: 36 characters, dashes at 9, 14, 19 and 24,
\* hexadecimal digits elsewhere
IsCanonicalUuid(text) ==
    /\ Len(text) = 36
    /\ \A i \in 1..36 : IF i \in {9, 14, 19, 24} THEN text[i] = 45
                                                  ELSE HexVal(text[i]) >= 0

\* the session state of the tunnel (Connecting, Handshaking, Tunneling, Closed)
State ==
    CASE pc = "connect" -> "Connecting"
      [] pc \in {"hs_send", "hs_recv"} -> "Handshaking"
      [] pc \in {"ws_send", "tun_recv", "parse", "close"} -> "Tunneling"
      [] pc \in {"done", "crashed"} -> "Closed"

Rank(st) ==
    CASE st = "Connecting" -> 0
      [] st = "Handshaking" -> 1
      [] st = "Tunneling" -> 2
      [] st = "Closed" -> 3

RECURSIVE Flat(_)
\* the chunks of a sequence joined
Flat(chunks) == IF chunks = <<>> THEN <<>> ELSE Head(chunks) \o Flat(Tail(chunks))

\* the handshake loop read exactly up to the header terminator
Aligned == hsEnd = Len(HandshakeReply)

\* the parse loop has run on everything the peer had to send
ParsedAll == pc \in {"close", "done"} /\ rpos = Len(wire)

\* the frames written to the socket
FramesSent == SelectSeq(sent, LAMBDA m : m.kind = "frame")

\* the upgrade requests written to the socket
UpgradesSent == SelectSeq(sent, LAMBDA m : m.kind = "upgrade")

\* fs is one message cut into frames as RFC 6455 5.4 prescribes
IsFragmentation(fs) ==
    /\ Len(fs) >= 1
    /\ fs[1].opcode \in {1, 2}
    /\ \A i \in 2..Len(fs) : fs[i].opcode = 0
    /\ \A i \in 1..Len(fs) : fs[i].fin = (IF i = Len(fs) THEN 1 ELSE 0)
    /\ \A i \in 1..Len(fs) : fs[i].mask = <<>>

RECURSIVE Message(_)
\* the payloads of fs joined
Message(fs) == IF fs = <<>> THEN <<>> ELSE Head(fs).data \o Message(Tail(fs))

\* the number of wire bytes up to the end of the k-th peer frame
FrameEnd(k) == Len(HandshakeReply) + Len(PeerStream(SubSeq(peerFrames, 1, k)))

----------------------------------------------------------------------------
(* C1: frame round trip.  The frame send_ws_frame builds for a payload, fed *)
(* to the parse loop, yields exactly one frame; its payload, unmasked with  *)
(* the key of the frame, is the original payload; the loop consumes the     *)
(* whole frame and nothing else.                                            *)
C1_FrameRoundTrip ==
    pc = "close" =>
        /\ Len(parsed) = 1
        /\ MaskBytes(parsed[1].raw, codec.mask) = codec.data
        /\ offset = Len(all_data)

----------------------------------------------------------------------------
(* C2: fragmentation equivalence.  When the peer's frames are one message   *)
(* cut into fragments, the application bytes printed are those printed for  *)
(* the same message sent as a single FIN=1 frame.                           *)
C2_FragmentationEquivalence ==
    (ParsedAll /\ Aligned /\ IsFragmentation(peerFrames)) =>
        Flat(printed)
            = Flat(ParseAll(PeerEncode(Frame(1, peerFrames[1].opcode, Message(peerFrames)))))

----------------------------------------------------------------------------
(* C3: in a session whose peer sent a non-empty payload, the VLESS response *)
(* header has been stripped exactly once, and from the first non-empty      *)
(* payload (no later one, none twice).                                      *)
C3_StripOnFirstNonEmpty ==
    LET nonEmpty == {i \in 1..Len(parsed) : parsed[i].raw # <<>>}
        stripped == {i \in 1..Len(parsed) : parsed[i].stripped}
    IN  (Aligned /\ ParsedAll /\ nonEmpty # {}) =>
            /\ Cardinality(stripped) = 1
            /\ \A i \in stripped : \A j \in nonEmpty : i <= j

----------------------------------------------------------------------------
(* C4: the bytes the handshake loop read past the header terminator are the *)
(* first bytes of the buffer the parse loop works on: the buffer is every   *)
(* byte received after the terminator.                                      *)
C4_ExtraBytesRetained ==
    pc \in {"parse", "close", "done"} =>
        all_data = SubSeq(wire, EndOfFirst(response, CRLFCRLF) + 1, rpos)

----------------------------------------------------------------------------
(* C5: the session state only moves forward along Connecting, Handshaking,  *)
(* Tunneling, Closed; the upgrade request is written at most once, and      *)
(* exactly once in every session that gets to Tunneling or ends after the   *)
(* handshake; once Closed, nothing more is read from or written to the      *)
(* socket.                                                                  *)
C5_ForwardOnly ==
    [][ /\ Rank(State') >= Rank(State)
        /\ calls'.connect <= 1
        /\ calls'.hs_send <= 1
        /\ Len(UpgradesSent') <= 1
        /\ (pc' \in {"ws_send", "tun_recv", "parse", "close", "done"}
               => Len(UpgradesSent') = 1 /\ calls'.hs_send = 1)
        /\ (State = "Closed" => UNCHANGED <<calls, sent, rpos, sock>>)
      ]_vars

\* a whole run: connected, upgraded, tunnelled, closed
C5_Witness == pc = "done" /\ Len(UpgradesSent) = 1 /\ calls.tun_recv >= 2

----------------------------------------------------------------------------
(* The frame the session has to write *)

\* the frame payload the session has to send, byte for byte
C6_ExpectedPayload ==
    <<0>> \o vless_uuid_bytes \o <<0, 1, 0, 80, 2, 11>> \o target_host \o http_request

\* fr is one masked binary FIN=1 frame with a 7-bit length carrying data
C6_IsFrameOf(fr, data) ==
    /\ Len(fr) = 6 + Len(data)
    /\ fr[1] = 130
    /\ fr[2] = 128 + Len(data)
    /\ \A i \in 1..Len(data) : Xor(fr[6 + i], fr[2 + ((i - 1) % 4) + 1]) = data[i]

(* C6: the tunnelled request is written only after the handshake loop has   *)
(* seen the header terminator; it is one binary frame (0x82, masked) whose  *)
(* unmasked payload is the VLESS request header followed by the HTTP        *)
(* request; no recv of the tunnel loop precedes it; every session that      *)
(* reads the tunnel has written exactly one such frame.                     *)
C6_OneFrameAfterHandshake ==
    [][ /\ calls'.ws_send <= 1
        /\ Len(FramesSent') <= 1
        /\ (sent' # sent /\ sent'[Len(sent')].kind = "frame") =>
              /\ sent' = Append(sent, sent'[Len(sent')])
              /\ Len(sent) = 1
              /\ sent[1].kind = "upgrade"
              /\ Contains(response, CRLFCRLF)
              /\ calls.tun_recv = 0
              /\ all_data = <<>>
              /\ C6_IsFrameOf(sent'[2].bytes, C6_ExpectedPayload)
        /\ (calls'.tun_recv > calls.tun_recv) => Len(FramesSent) = 1
        /\ (pc' \in {"tun_recv", "parse", "close", "done"}) => Len(FramesSent') = 1
      ]_vars

\* the frame is on the wire and the tunnel loop has read some of the answer
C6_Witness ==
    /\ pc = "tun_recv"
    /\ all_data # <<>>
    /\ Len(FramesSent) = 1
    /\ FramesSent[1].bytes[3] = 165

----------------------------------------------------------------------------
(* C7: a Close frame from the peer ends the delivery: no byte of the Close  *)
(* frame's payload and no byte of any frame behind it is printed.           *)
C7_CloseEndsDelivery ==
    (Aligned /\ pc \in {"parse", "close", "done"}) =>
        \A i \in 1..Len(printed) :
            printed[i] # <<>> =>
                \A j \in 1..Min(i, Len(peerFrames)) : peerFrames[j].opcode # 8

----------------------------------------------------------------------------
(* C8: a read loop ended by a zero-byte read or by the idle timeout is a    *)
(* normal end of stream: the session ends closed and without error, and the *)
(* payload of every frame the peer had sent completely by then has been     *)
(* handed on.                                                               *)
C8_EndOfStreamDelivers ==
    (pc = "done" /\ readEnd \in {"eof", "timeout"}) =>
        /\ error = "none"
        /\ sock = "closed"
        /\ \A k \in 1..Len(peerFrames) :
             FrameEnd(k) <= rpos =>
                /\ k <= Len(parsed)
                /\ parsed[k].raw = peerFrames[k].data

----------------------------------------------------------------------------
(* C9: every pass of the handshake read loop either takes in new bytes, or  *)
(* ends the loop: with success once the terminator is in the buffer, with   *)
(* an error when recv returns zero bytes or times out.                      *)
C9_HandshakeLoopEnds ==
    [][ pc = "hs_recv" =>
          \/ /\ pc' = "hs_recv"
             /\ rpos' > rpos
          \/ /\ pc' = "ws_send"
             /\ Contains(response, CRLFCRLF)
             /\ error' = "none"
          \/ /\ pc' = "crashed"
             /\ error' # "none"
      ]_vars

----------------------------------------------------------------------------
\* the handshake loop met a closed connection or a timeout before the terminator
C10_HandshakeFailed ==
    /\ pc \in {"hs_recv", "crashed"}
    /\ calls.hs_send = 1
    /\ ~Contains(response, CRLFCRLF)
    /\ (peerClosed \/ error = "socket.timeout")

(* C10: a failed handshake (connection closed or timed out before the       *)
(* header terminator) leaves the session Closed with an error, with no      *)
(* tunnel frame written, no tunnel read made and no second connection or    *)
(* handshake.                                                               *)
C10_FailedHandshakeCloses ==
    C10_HandshakeFailed =>
        /\ State = "Closed"
        /\ error # "none"
        /\ FramesSent = <<>>
        /\ calls.ws_send = 0
        /\ calls.tun_recv = 0
        /\ calls.connect = 1

----------------------------------------------------------------------------
(* C11: an inbound frame with the MASK bit set is a protocol error: no      *)
(* byte is printed from that frame on (neither key nor payload), and a      *)
(* session that received such a frame ends with an error.                   *)
C11_MaskedFrameRejected ==
    (Aligned /\ pc \in {"parse", "close", "done"}) =>
        /\ \A i \in 1..Len(printed) :
             printed[i] # <<>> =>
                \A j \in 1..Min(i, Len(peerFrames)) : peerFrames[j].mask = <<>>
        /\ (pc = "done" /\ \E j \in 1..Len(peerFrames) :
                               peerFrames[j].mask # <<>> /\ FrameEnd(j) <= rpos)
              => error # "none"

----------------------------------------------------------------------------
(* C12: a frame whose declared payload is not yet wholly in the buffer is   *)
(* not delivered: every payload the parse loop takes is the whole payload   *)
(* of the peer's frame, never a shortened one, and the offset never passes  *)
(* the end of the buffer.                                                   *)
C12_NoTruncatedPayload ==
    (Aligned /\ pc \in {"parse", "close", "done"}) =>
        /\ offset <= Len(all_data)
        /\ \A k \in 1..Len(parsed) :
             /\ k <= Len(peerFrames)
             /\ parsed[k].raw = peerFrames[k].data

(* C13: the encoder writes a payload length N <= 125 in the low 7 bits of    *)
(* the second byte, 126 <= N <= 65535 as marker 126 and N in 2 big-endian    *)
(* bytes, N > 65535 as marker 127 and N in 8 big-endian bytes; the frame is  *)
(* N+6, N+8 or N+14 bytes long.                                              *)
C13_LengthClasses ==
    \A k \in 1..Len(sent) :
        LET fr == sent[k].bytes
            N  == Len(codec.data)
        IN  /\ N <= 125 =>
                 /\ fr[2] % 128 = N
                 /\ Len(fr) = N + 6
            /\ (N >= 126 /\ N <= 65535) =>
                 /\ fr[2] % 128 = 126
                 /\ 256 * fr[3] + fr[4] = N
                 /\ Len(fr) = N + 8
            /\ N > 65535 =>
                 /\ fr[2] % 128 = 127
                 /\ \A i \in 3..6 : fr[i] = 0
                 /\ fr[7] < 128
                 /\ 16777216 * fr[7] + 65536 * fr[8] + 256 * fr[9] + fr[10] = N
                 /\ Len(fr) = N + 14

\* the first length of the 2-byte class has been encoded
C13_Witness ==
    /\ Len(sent) = 1
    /\ Len(codec.data) = 126
    /\ Len(sent[1].bytes) = 134
    /\ SubSeq(sent[1].bytes, 2, 4) = <<254, 0, 126>>

(* C14: the bytes the encoder writes after the key are                       *)
(* masked[i] = payload[i] XOR key[i mod 4] for every index i, as many as the *)
(* payload has, and masking them again with the same key gives back the      *)
(* payload.                                                                  *)
C14_Masking ==
    \A k \in 1..Len(sent) :
        LET fr     == sent[k].bytes
            data   == codec.data
            key    == codec.mask
            masked == SubSeq(fr, BodyStart(fr) + 1, Len(fr))
        IN  /\ Len(masked) = Len(data)
            /\ \A i \in 0..(Len(data) - 1) : \A j \in 0..7 :
                   Bit(masked[i + 1], j)
                       = (Bit(data[i + 1], j) + Bit(key[(i % 4) + 1], j)) % 2
            /\ MaskBytes(masked, key) = data

\* six bytes were masked with the key A5 5A FF 01: the fifth, 0x26, met the
\* first key byte again and went out as 0x83
C14_Witness ==
    /\ Len(sent) = 1
    /\ codec.mask = <<165, 90, 255, 1>>
    /\ codec.data = <<10, 17, 24, 31, 38, 45>>
    /\ sent[1].bytes[11] = 131

(* C15: every frame the client writes has 0x82 as its first byte (FIN = 1,   *)
(* opcode Binary), the MASK bit set in its second byte and the 4-byte        *)
(* masking key between the length field and the payload; no frame is         *)
(* written unmasked or with FIN = 0.                                         *)
C15_AlwaysMaskedBinary ==
    \A k \in 1..Len(sent) :
        sent[k].kind = "frame" =>
            LET fr == sent[k].bytes IN
            /\ fr[1] = 130
            /\ fr[1] \div 128 = 1
            /\ fr[1] % 16 = 2
            /\ fr[2] \div 128 = 1
            /\ Len(fr) >= BodyStart(fr)
            /\ SubSeq(fr, BodyStart(fr) - 3, BodyStart(fr)) = codec.mask
            /\ Len(fr) - BodyStart(fr) = Len(codec.data)

\* a frame of the 2-byte length class went out with the key FF FF FF FF
C15_Witness ==
    /\ Len(sent) = 1
    /\ sent[1].kind = "frame"
    /\ Len(codec.data) = 127
    /\ SubSeq(sent[1].bytes, 1, 8) = <<130, 254, 0, 127, 255, 255, 255, 255>>

\* the header of a finished header run is laid out as 00, identity, 00, 01,
\* port big-endian, 02, domain length, domain, and is fixed + len(domain)
\* bytes long; a domain of more than 255 bytes gives no header at all
C16_LayoutWithLength(fixed) ==
    pc # "header" =>
        LET h == codec.header
            d == codec.domain
        IN  /\ Len(d) > 255 => (h = <<>> /\ pc = "crashed" /\ error = "ValueError")
            /\ Len(d) \in 1..255 =>
                 /\ pc = "ws_send"
                 /\ Len(h) = fixed + Len(d)
                 /\ h[1] = 0
                 /\ SubSeq(h, 2, 17) = codec.identity
                 /\ h[18] = 0
                 /\ h[19] = 1
                 /\ h[20] \in 0..255 /\ h[21] \in 0..255
                 /\ 256 * h[20] + h[21] = codec.port
                 /\ h[22] = 2
                 /\ h[23] = Len(d)
                 /\ SubSeq(h, 24, Len(h)) = d

(* C16 as stated: for every identity, port in 0..65535 and domain of 1..255  *)
(* bytes the header is 00, identity, 00, 01, port big-endian, 02, domain     *)
(* length, domain; its length is 22 + len(domain); a domain longer than 255  *)
(* bytes is never encoded with a wrapped or truncated length byte.           *)
C16_AsStated == C16_LayoutWithLength(22)

(* C16, amended: the same layout, and the header's length is                 *)
(* 23 + len(domain) (1 + 16 + 1 + 1 + 2 + 1 + 1 bytes before the domain).    *)
C16_HeaderLayout == C16_LayoutWithLength(23)

\* a header was built for port 443 and a domain of 255 bytes
C16_Witness ==
    /\ pc = "ws_send"
    /\ Len(codec.domain) = 255
    /\ codec.port = 443
    /\ Len(codec.header) = 278
    /\ SubSeq(codec.header, 20, 23) = <<1, 187, 2, 255>>

(* C17: in the script's run the VLESS header is 34 bytes, the frame payload  *)
(* is header + request = 92 bytes, and the message goes out as one masked    *)
(* binary frame whose length field is the single byte 0x80 | 92.             *)
C17_EndToEndFrame ==
    /\ Len(FramesSent) <= 1
    /\ \A k \in 1..Len(sent) :
         sent[k].kind = "frame" =>
            /\ Len(header) = 34
            /\ Len(http_request) = 58
            /\ Len(payload) = 92
            /\ sent[k].bytes[1] = 130
            /\ sent[k].bytes[2] = 128 + 92
            /\ Len(sent[k].bytes) = 2 + 4 + 92

\* the script ran to its end and its second write was the 98-byte frame
C17_Witness ==
    /\ pc = "done"
    /\ Len(sent) = 2
    /\ sent[2].kind = "frame"
    /\ sent[2].bytes[2] = 220
    /\ Len(sent[2].bytes) = 98

(* C18: when the first inbound payload is a version byte, an addon-length    *)
(* byte k, k addon bytes and then bytes P, the response-header strip returns *)
(* exactly P, the slice from offset 2 + k on (with k = 0, the bytes after    *)
(* the first two).                                                           *)
C18_StripReturnsRest ==
    /\ pc = "close" => Len(parsed) = 1
    /\ \A k \in 1..Len(parsed) :
         /\ k = 1
         /\ parsed[k].raw = StripInput(codec)
         /\ parsed[k].stripped
         /\ parsed[k].payload = codec.rest
         /\ parsed[k].payload = SubSeq(parsed[k].raw, 2 + Len(codec.addon) + 1, Len(parsed[k].raw))
         /\ first_frame = FALSE

\* a header with two addon bytes was stripped from in front of 41 C8 00
C18_Witness ==
    /\ pc = "close"
    /\ Len(parsed) = 1
    /\ Len(codec.addon) = 2
    /\ parsed[1].raw[2] = 2
    /\ codec.rest = <<65, 200, 0>>
    /\ parsed[1].payload = <<65, 200, 0>>

(* C19: when the first inbound payload is shorter than 2 bytes the strip     *)
(* fails with MalformedResponse and the session ends with that error: the    *)
(* short payload is not delivered, and the strip is not applied to a later   *)
(* frame instead.                                                            *)
C19_ShortFirstPayloadFails ==
    ( /\ Aligned
      /\ pc \in {"parse", "close", "done"}
      /\ Len(peerFrames) >= 1
      /\ Len(peerFrames[1].data) = 1
      /\ FrameEnd(1) <= rpos )
    =>
      /\ printed = <<>>
      /\ \A k \in 1..Len(parsed) : ~parsed[k].stripped
      /\ pc = "done" => error = "MalformedResponse"

(* C20: for a sequence of well-formed unmasked data frames, wholly received, *)
(* the chunks delivered, put together, are the frame payloads put together   *)
(* in arrival order without their first 2 + addonLength bytes: no payload    *)
(* byte is dropped, duplicated, reordered or altered.                        *)
C20_DeliveredEqualsPayloads ==
    LET msg == Message(peerFrames) IN
    ( /\ Aligned
      /\ ParsedAll
      /\ \A j \in 1..Len(peerFrames) :
            peerFrames[j].mask = <<>> /\ peerFrames[j].opcode \in {0, 1, 2}
      /\ Len(msg) >= 2
      /\ Len(msg) >= 2 + msg[2] )
    =>
      Flat(printed) = SubSeq(msg, 2 + msg[2] + 1, Len(msg))

(* C21: when a recv of the tunnel read loop fails with a socket error other  *)
(* than the idle timeout, the session ends Closed with that error: the       *)
(* bytes received so far are not decoded and delivered.                      *)
C21_ReadErrorEndsSession ==
    readEnd = "error" =>
        /\ Flat(printed) = <<>>
        /\ pc = "done" => error # "none"

\* the opcodes RFC 6455 reserves: 3-7 and 11-15
ReservedOpcodes == (3..7) \cup (11..15)

(* C22: an inbound frame with a reserved opcode (3-7, 11-15) is a protocol   *)
(* violation: its payload is not delivered, nothing is delivered after it,   *)
(* and the session ends Closed with an error.                                *)
C22_ReservedOpcodeRejected ==
    (Aligned /\ pc \in {"parse", "close", "done"}) =>
        \A k \in 1..Len(parsed) :
            ( /\ parsed[k].opcode \in ReservedOpcodes
              /\ k <= Len(peerFrames)
              /\ parsed[k].raw = peerFrames[k].data )
            =>
              /\ \A i \in k..Len(printed) : printed[i] = <<>>
              /\ pc = "done" => error # "none"

(* C30: only payloads of data frames are delivered: the payload of an        *)
(* inbound Ping or Pong among the data frames is not in the delivered bytes  *)
(* and does not use up the one-time strip of the VLESS response header.      *)
C30_ControlFramesNotDelivered ==
    (Aligned /\ pc \in {"parse", "close", "done"}) =>
        \A k \in 1..Len(parsed) :
            ( /\ parsed[k].opcode \in {9, 10}
              /\ k <= Len(peerFrames)
              /\ parsed[k].raw = peerFrames[k].data )
            =>
              /\ printed[k] = <<>>
              /\ ~parsed[k].stripped

(* C23: parsing the client identity succeeds, giving its 16 bytes, only for  *)
(* a 36-character canonical hex-and-dash UUID text; for every other text     *)
(* (32 digits without dashes, braces, urn:uuid: prefix) it fails, and no     *)
(* frame carrying an identity is written.                                    *)
C23_OnlyCanonicalIdentity ==
    /\ ~IsCanonicalUuid(codec.text) =>
          /\ FramesSent = <<>>
          /\ pc \notin {"tun_recv", "parse", "close", "done"}
    /\ (IsCanonicalUuid(codec.text) /\ FramesSent # <<>>) =>
          LET fr == FramesSent[1].bytes IN
          SubSeq(MaskBytes(SubSeq(fr, 7, Len(fr)), SubSeq(fr, 3, 6)), 2, 17)
              = vless_uuid_bytes

\* m is d overlaid with e: the keys of both, e's value where e has the key
IsOverlay(m, d, e, keys) ==
    \A k \in keys :
        /\ DictHas(m, k) <=> (DictHas(d, k) \/ DictHas(e, k))
        /\ DictHas(e, k) => DictVal(m, k) = DictVal(e, k)
        /\ (DictHas(d, k) /\ ~DictHas(e, k)) => DictVal(m, k) = DictVal(d, k)

(* C25: a Session.request call passes on the session-level headers and       *)
(* cookies merged with the request-level ones (the request-level value wins  *)
(* for a key in both, a session-level key absent from the request is still   *)
(* sent), uses the session's cf_proxies, and leaves Session.headers and      *)
(* Session.cookies unchanged.                                                *)
C25_RequestMerges ==
    [][ (reqlog' # reqlog /\ reqlog'.last.caller = "session") =>
            /\ session' = session
            /\ reqlog'.last.called =>
                 LET L == reqlog'.last IN
                 /\ L.cf_proxies = session.cf_proxies
                 /\ IsOverlay(L.headers, session.headers, L.req_headers, HeaderKeys)
                 /\ IsOverlay(L.cookies, session.cookies, L.req_cookies, CookieKeys)
                 /\ Len(L.headers) <= Cardinality(HeaderKeys)
                 /\ Len(L.cookies) <= Cardinality(CookieKeys)
      ]_vars

\* a request was made that overrode the session's Authorization header and
\* its sid cookie and still sent the session's Accept header
C25_Witness ==
    /\ reqlog.last.caller = "session"
    /\ reqlog.last.called
    /\ reqlog.last.lib # "none"
    /\ session.headers = <<<<"Accept", 1>>, <<"Authorization", 1>>>>
    /\ session.cookies = <<<<"sid", 1>>>>
    /\ reqlog.last.headers = <<<<"Accept", 1>>, <<"Authorization", 2>>>>
    /\ reqlog.last.cookies = <<<<"sid", 2>>>>

(* C26: across the requests of one Session cookies are kept: a cookie set by *)
(* the response to a request of the session is in Session.cookies            *)
(* afterwards, and every later request of the session sends it.              *)
(* reqlog.set_cookies holds the cookies that responses to the session's      *)
(* requests have set so far.                                                 *)
C26_CookiesKept ==
    [][ (reqlog' # reqlog /\ reqlog'.last.caller = "session" /\ reqlog'.last.called) =>
            \A k \in CookieKeys :
                /\ DictHas(reqlog'.set_cookies, k) => DictHas(session'.cookies, k)
                /\ DictHas(reqlog.set_cookies, k) => DictHas(reqlog'.last.cookies, k)
      ]_vars

(* C27: request() called with http2=True and a non-empty impersonate raises  *)
(* ValueError and calls no backend library.                                  *)
C27_Http2WithImpersonateRaises ==
    (reqlog.last.called /\ reqlog.last.http2 /\ reqlog.last.impersonate # "") =>
        /\ reqlog.last.exc = "ValueError"
        /\ reqlog.last.lib = "none"

(* C28: the decoded output does not depend on how the inbound byte stream is *)
(* cut into socket reads: once the whole stream the peer sent was received   *)
(* and parsed, the bytes delivered are the ones the parse loop yields on the *)
(* frames the peer sent, however the recv calls cut the stream.              *)
C28_ChunkingIndependent ==
    ParsedAll => Flat(printed) = Flat(ParseAll(PeerStream(peerFrames)))

(* C29: no byte of the VLESS response header (version, addon length, addon)  *)
(* is delivered as application data, also when the header is split across    *)
(* two inbound frames.  The payload of frame i covers the positions          *)
(* PayloadStart(i)+1 .. PayloadStart(i)+Len(raw) of the peer's byte stream,  *)
(* the header the positions 1 .. 2+Len(addon); what line 123 prints of a     *)
(* frame is a suffix of its payload.                                         *)
PayloadStart(i) == IF i = 1 THEN 0 ELSE codec.cut

C29_NoHeaderByteDelivered ==
    \A i \in 1..Len(parsed) :
        parsed[i].payload # <<>> =>
            PayloadStart(i) + Len(parsed[i].raw) - Len(parsed[i].payload)
                >= 2 + Len(codec.addon)

(* C31: the frame parse loop terminates on every received buffer, whatever   *)
(* its content: each iteration either stops the loop or increases the offset *)
(* by at least 2; and the tunnel read loop ends once the peer closes or the  *)
(* idle timeout fires.                                                       *)
C31_LoopsTerminate ==
    /\ [][ pc = "parse" => (pc' = "close" \/ offset' >= offset + 2) ]_vars
    /\ [][ (pc = "tun_recv" /\ (readEnd' \in {"eof", "timeout"} \/ peerClosed'))
               => pc' = "parse" ]_vars
    /\ (pc = "tun_recv") ~> (pc = "parse")
    /\ (pc = "parse") ~> (pc = "close")

\* the parse loop has ended on a buffer whose only frame declares nine bytes
\* of payload and holds one
C31_Witness ==
    /\ pc = "close"
    /\ all_data = <<130, 127, 0, 0, 0, 0, 0, 0, 0, 9, 65>>
    /\ Len(parsed) = 1
    /\ offset = 19
    /\ readEnd = "timeout"

(* C32: every run that has opened the socket ends with the socket closed, on *)
(* the normal path and on every failure path, close() having been called     *)
(* exactly once on it.                                                       *)
C32_ClosedExactlyOnce ==
    /\ calls.close <= 1
    /\ (pc \in {"done", "crashed"} /\ sock # "none") =>
           /\ sock = "closed"
           /\ calls.close = 1

====
